---- MODULE Spec2Model ----
(***************************************************************************)
(* Qwen3 embedding HTTP service (qwen3_embedding_server.py) and the        *)
(* Ollama smoke-test script (test_ollama_embedding.py).                    *)
(*                                                                         *)
(* Strings whose content matters are sequences of one-character strings,  *)
(* so that str.strip(), len() and concatenation are computed.  Optional[T]*)
(* is a sequence of length at most one: << >> is None, <<x>> is the value *)
(* x.  A vector is a sequence of component identifiers; the arithmetic of *)
(* the inference library (tokenizer, forward pass, pooling, L2            *)
(* normalisation) is the library's, only its call/raise behaviour and the *)
(* shape of its output are modelled.                                       *)
(***************************************************************************)
EXTENDS Integers, Sequences, FiniteSets, TLC

(* ---------------------------- bounds ----------------------------------- *)
MaxTextLen == 1
MaxBatch == 2

(* ------------------------ program constants ---------------------------- *)
EmbeddingDim == 1024
MinDim == 32

None == << >>
Some(x) == <<x>>

Whitespace == {" ", "\t", "\n"}
Chars == {" ", "a"}

RECURSIVE StringsUpTo(_)
StringsUpTo(n) ==
    IF n = 0 THEN {<< >>}
    ELSE LET shorter == StringsUpTo(n - 1)
         IN  shorter \cup {Append(s, c) : s \in {t \in shorter : Len(t) = n - 1}, c \in Chars}

Texts == StringsUpTo(MaxTextLen)
Prefixes == {None, Some(<< >>), Some(<<"\n">>), Some(<<"a">>)}
Instructions == {None, Some("query"), Some("document"), Some("passage")}
Dimensions == {None} \cup {Some(d) : d \in {-1, 0, 31, 32, 512, 1024, 1025}}
LibOutcomes == {"ok", "tokenizer_raises", "model_raises"}
BatchLibOutcomes == {"ok", "model_raises"}

QueryTemplate == <<
    "I", "n", "s", "t", "r", "u", "c", "t", ":", " ", "G", "i", "v", "e",
    "n", " ", "a", " ", "q", "u", "e", "r", "y", ",", " ", "r", "e", "t",
    "r", "i", "e", "v", "e", " ", "r", "e", "l", "e", "v", "a", "n", "t",
    " ", "p", "a", "s", "s", "a", "g", "e", "s", " ", "t", "h", "a", "t",
    " ", "a", "n", "s", "w", "e", "r", " ", "t", "h", "e", " ", "q", "u",
    "e", "r", "y", "\n", "Q", "u", "e", "r", "y", ":", " " >>

DocumentTemplate == <<
    "I", "n", "s", "t", "r", "u", "c", "t", ":", " ", "E", "m", "b", "e",
    "d", " ", "t", "h", "i", "s", " ", "d", "o", "c", "u", "m", "e", "n",
    "t", " ", "f", "o", "r", " ", "r", "e", "t", "r", "i", "e", "v", "a",
    "l", "\n", "D", "o", "c", "u", "m", "e", "n", "t", ":", " " >>

(* ------------------------------ str.strip ------------------------------ *)
RECURSIVE LStrip(_)
LStrip(s) ==
    IF s # << >> /\ Head(s) \in Whitespace THEN LStrip(Tail(s)) ELSE s

RECURSIVE RStrip(_)
RStrip(s) ==
    IF s # << >> /\ s[Len(s)] \in Whitespace
    THEN RStrip(SubSeq(s, 1, Len(s) - 1)) ELSE s

Strip(s) == RStrip(LStrip(s))

(* -------------------------- EmbedRequest ------------------------------- *)
EmbedRequest(text, prefix, dimensions, instruction) ==
    [text |-> text, prefix |-> prefix, dimensions |-> dimensions,
     instruction |-> instruction]

(* Python truthiness of an Optional[int]: None and 0 are falsy. *)
TruthyInt(opt) == opt # None /\ opt[1] # 0

(* Python truthiness of an Optional[str]: None and "" are falsy. *)
TruthyStr(opt) == opt # None /\ opt[1] # << >>

(* Variant of IsEmptyText without the strip: only "" counts as empty. *)
IsEmptyTextNoStrip(text) == text = << >>

(* `not request.text or request.text.strip() == ""` *)
IsEmptyText(text) == text = << >> \/ Strip(text) = << >>

(* f"{request.prefix} {request.text}".strip() if request.prefix else request.text *)
WithPrefix(request) ==
    IF TruthyStr(request.prefix)
    THEN Strip(request.prefix[1] \o <<" ">> \o request.text)
    ELSE request.text

FullText(request) ==
    LET full_text == WithPrefix(request)
    IN  IF request.instruction = Some("query") THEN QueryTemplate \o full_text
        ELSE IF request.instruction = Some("document") THEN DocumentTemplate \o full_text
        ELSE full_text

(* The normalised vector the library returns for a text: EmbeddingDim      *)
(* components, each identified by the text it came from and its position. *)
ModelOutput(full_text) ==
    [i \in 1..EmbeddingDim |-> Len(full_text) * EmbeddingDim + i]

(* Variant of Truncate keeping the trailing components: embedding[-target_dim:] *)
TruncateTail(embedding, target_dim) ==
    SubSeq(embedding, Len(embedding) - target_dim + 1, Len(embedding))

(* embedding[:target_dim] *)
Truncate(embedding, target_dim) == SubSeq(embedding, 1, target_dim)

InMrlRange(target_dim) == MinDim <= target_dim /\ target_dim <= EmbeddingDim

(* `target_dim is not None and target_dim != 1024` *)
MrlApplied(target_dim) == target_dim # None /\ target_dim[1] # EmbeddingDim

HTTPException(status_code, detail, tok, mod) ==
    [status |-> status_code, detail |-> detail,
     tokenizerCalls |-> tok, modelCalls |-> mod]

(* The body of the try block: either the returned dict or the raised      *)
(* exception.                                                              *)
TryBody(request, full_text, lib) ==
    IF lib = "tokenizer_raises"
    THEN [raised |-> TRUE, exc |-> "RuntimeError", tok |-> 1, mod |-> 0]
    ELSE IF lib = "model_raises"
    THEN [raised |-> TRUE, exc |-> "RuntimeError", tok |-> 1, mod |-> 1]
    ELSE LET full == ModelOutput(full_text)
             target_dim == request.dimensions
             reduce == TruthyInt(target_dim) /\ target_dim[1] # EmbeddingDim
         IN  IF reduce /\ ~InMrlRange(target_dim[1])
             THEN [raised |-> TRUE, exc |-> "HTTPException(400)", tok |-> 1, mod |-> 1]
             ELSE LET embedding == IF reduce THEN Truncate(full, target_dim[1]) ELSE full
                  IN  [raised |-> FALSE, tok |-> 1, mod |-> 1,
                       body |-> [embedding |-> embedding,
                                 dimensions |-> Len(embedding),
                                 model |-> "Qwen3-Embedding-0.6B",
                                 text_length |-> Len(full_text),
                                 mrl_applied |-> MrlApplied(target_dim)]]

(* `except Exception as e`: HTTPException is an Exception, so whatever    *)
(* the try block raised leaves the handler as a 500.                      *)
ExceptHandler(r) ==
    HTTPException(500, "Error generating embedding", r.tok, r.mod)

(* Variant of GenerateEmbedding validating the text before looking at the *)
(* model handle.                                                           *)
GenerateEmbeddingValidateFirst(m, request, lib) ==
    IF IsEmptyText(request.text)
    THEN HTTPException(400, "Text cannot be empty", 0, 0)
    ELSE IF m = None
    THEN HTTPException(503, "Model is still loading. Please wait...", 0, 0)
    ELSE LET r == TryBody(request, FullText(request), lib)
         IN  IF r.raised THEN ExceptHandler(r)
             ELSE [status |-> 200, body |-> r.body,
                   tokenizerCalls |-> r.tok, modelCalls |-> r.mod]

(* POST /embed.  m is the global model handle.  The result is the success *)
(* response (status 200) or the HTTPException raised; both record how     *)
(* many times the tokenizer and the model were invoked.                   *)
GenerateEmbedding(m, request, lib) ==
    IF m = None
    THEN HTTPException(503, "Model is still loading. Please wait...", 0, 0)
    ELSE IF IsEmptyText(request.text)
    THEN HTTPException(400, "Text cannot be empty", 0, 0)
    ELSE LET r == TryBody(request, FullText(request), lib)
         IN  IF r.raised THEN ExceptHandler(r)
             ELSE [status |-> 200, body |-> r.body,
                   tokenizerCalls |-> r.tok, modelCalls |-> r.mod]

(* ------------------------- POST /embed/batch --------------------------- *)
(* Variant of AppendResult that drops a failed item instead of appending  *)
(* None.                                                                   *)
AppendResultSkipFailed(embeddings, result) ==
    IF result.status = 200
    THEN Append(embeddings, Some(result.body.embedding))
    ELSE embeddings

(* One pass of the loop body: append the embedding, or None when the call *)
(* raised.                                                                 *)
AppendResult(embeddings, result) ==
    IF result.status = 200
    THEN Append(embeddings, Some(result.body.embedding))
    ELSE Append(embeddings, None)

(* Variant of BatchDimensions written `dimensions if dimensions is not None else 1024` *)
BatchDimensionsNotNone(dimensions) ==
    IF dimensions # None THEN dimensions[1] ELSE EmbeddingDim

(* `dimensions or 1024` *)
BatchDimensions(dimensions) ==
    IF TruthyInt(dimensions) THEN dimensions[1] ELSE EmbeddingDim

(* `sum(1 for e in embeddings if e is None)` *)
CountNone(embeddings) ==
    Cardinality({i \in 1..Len(embeddings) : embeddings[i] = None})

(* The for loop over texts; libs[i] is what the library does on the i-th  *)
(* call.  calls keeps the outcome of each inner generate_embedding call.  *)
RECURSIVE BatchLoop(_, _, _, _, _, _, _)
BatchLoop(m, texts, instruction, dimensions, libs, i, acc) ==
    IF i > Len(texts) THEN acc
    ELSE LET result == GenerateEmbedding(
                           m,
                           EmbedRequest(texts[i], Some(<< >>), dimensions, instruction),
                           libs[i])
         IN  BatchLoop(m, texts, instruction, dimensions, libs, i + 1,
                       [embeddings |-> AppendResult(acc.embeddings, result),
                        calls |-> Append(acc.calls, result.status),
                        tok |-> acc.tok + result.tokenizerCalls,
                        mod |-> acc.mod + result.modelCalls])

GenerateBatchEmbeddings(m, texts, instruction, dimensions, libs) ==
    IF m = None
    THEN HTTPException(503, "Model is still loading. Please wait...", 0, 0)
    ELSE LET done == BatchLoop(m, texts, instruction, dimensions, libs, 1,
                               [embeddings |-> << >>, calls |-> << >>,
                                tok |-> 0, mod |-> 0])
         IN  [status |-> 200,
              body |-> [embeddings |-> done.embeddings,
                        model |-> "Qwen3-Embedding-0.6B",
                        count |-> Len(done.embeddings),
                        dimensions |-> BatchDimensions(dimensions),
                        failed |-> CountNone(done.embeddings)],
              calls |-> done.calls,
              tokenizerCalls |-> done.tok, modelCalls |-> done.mod]

(* ------------------------------ state ---------------------------------- *)
VARIABLES
    \* qwen3_embedding_server.py
    model,      \* global model handle: None or Some(ModelName)
    tokenizer,  \* global tokenizer handle
    proc,       \* "imported" (startup not run yet), "serving", "exited"
    req,        \* the HTTP request being served, or NoReq
    lib,        \* what the inference library does on each call of this request
    resp,       \* Optional response (or raised HTTPException) of the request
    \* test_ollama_embedding.py
    pc,         \* position of the script
    i,          \* loop variable of the polling loop
    probes,     \* GET /api/tags requests made by wake_ollama_service
    okProbes,   \* those that answered 200
    wakes,      \* wake requests (GET OLLAMA_URL) made
    sleeps,     \* time.sleep(5) calls made
    firstProbe, \* Optional outcome of the first probe
    wakeResult, \* Optional return value of wake_ollama_service
    models,     \* Optional return value of list_models
    pulled,     \* Optional return value of pull_model
    k,          \* number of test texts processed by main's loop
    embeddings, \* main's embeddings list (the texts whose vector was kept)
    matrix,     \* TRUE once the similarity matrix was printed
    raisedIn    \* the function an uncaught exception left, or "none"

svars == <<model, tokenizer, proc, req, lib, resp>>
tvars == <<pc, i, probes, okProbes, wakes, sleeps, firstProbe, wakeResult,
           models, pulled, k, embeddings, matrix, raisedIn>>
vars == <<model, tokenizer, proc, req, lib, resp,
          pc, i, probes, okProbes, wakes, sleeps, firstProbe, wakeResult,
          models, pulled, k, embeddings, matrix, raisedIn>>

ModelName == "Qwen/Qwen3-Embedding-0.6B"
NoReq == [endpoint |-> "none"]

SeqsUpTo(S, n) == UNION {[1..j -> S] : j \in 0..n}

ServerInit ==
    /\ model = None
    /\ tokenizer = None
    /\ proc = "imported"
    /\ req = NoReq
    /\ lib = << >>
    /\ resp = None

(* startup_event -> load_model: the tokenizer is loaded first, then the   *)
(* model; any failure ends the process with exit(1).                      *)
LoadModel ==
    /\ proc = "imported"
    /\ req = NoReq
    /\ \E outcome \in {"ok", "tokenizer_fails", "model_fails"} :
          /\ tokenizer' = IF outcome = "tokenizer_fails" THEN None ELSE Some(ModelName)
          /\ model' = IF outcome = "ok" THEN Some(ModelName) ELSE None
          /\ proc' = IF outcome = "ok" THEN "serving" ELSE "exited"
    /\ UNCHANGED <<req, lib, resp>>
    /\ UNCHANGED tvars

(* POST /embed: the request arrives and generate_embedding runs to its   *)
(* return or raise.  The handler can be called before startup_event has   *)
(* run (model is None then), never after exit(1).                         *)
HandleEmbed ==
    /\ proc # "exited"
    /\ req = NoReq
    /\ \E text \in Texts, prefix \in Prefixes, dimensions \in Dimensions,
          instruction \in Instructions, l \in LibOutcomes :
          LET request == EmbedRequest(text, prefix, dimensions, instruction)
          IN  /\ req' = [endpoint |-> "/embed", body |-> request]
              /\ lib' = <<l>>
              /\ resp' = Some(GenerateEmbedding(model, request, l))
    /\ UNCHANGED <<model, tokenizer, proc>>
    /\ UNCHANGED tvars

(* POST /embed/batch: the request arrives and generate_batch_embeddings    *)
(* runs to its return or raise.                                            *)
HandleBatch ==
    /\ proc # "exited"
    /\ req = NoReq
    /\ \E texts \in SeqsUpTo(Texts, MaxBatch), dimensions \in Dimensions,
          instruction \in Instructions :
          \E libs \in [1..Len(texts) -> BatchLibOutcomes] :
             /\ req' = [endpoint |-> "/embed/batch", texts |-> texts,
                        instruction |-> instruction, dimensions |-> dimensions]
             /\ lib' = libs
             /\ resp' = Some(GenerateBatchEmbeddings(model, texts, instruction,
                                                     dimensions, libs))
    /\ UNCHANGED <<model, tokenizer, proc>>
    /\ UNCHANGED tvars

(* The response is sent; nothing of the request is kept. *)
Respond ==
    /\ resp # None
    /\ req' = NoReq
    /\ lib' = << >>
    /\ resp' = None
    /\ UNCHANGED <<model, tokenizer, proc>>
    /\ UNCHANGED tvars

(* ------------------------ test_ollama_embedding ------------------------ *)
PollBudget == 12
NumTestTexts == 5
MODEL_NAME == "qwen3-embedding:0.6b"

(* What a requests call can do: answer 200, answer another status, or     *)
(* raise a requests.RequestException (connection error, timeout).         *)
Outcomes == {"200", "non200", "raise"}

(* The model lists /api/tags can answer with. *)
ModelLists == {{}, {"llama3:8b"}, {MODEL_NAME}, {"llama3:8b", MODEL_NAME}}

ScriptInit ==
    /\ pc = "wake_probe"
    /\ i = 0
    /\ probes = 0
    /\ okProbes = 0
    /\ wakes = 0
    /\ sleeps = 0
    /\ firstProbe = None
    /\ wakeResult = None
    /\ models = None
    /\ pulled = None
    /\ k = 0
    /\ embeddings = << >>
    /\ matrix = FALSE
    /\ raisedIn = "none"

(* wake_ollama_service, the first probe in its try block. *)
WakeProbe ==
    /\ pc = "wake_probe"
    /\ \E o \in Outcomes :
          /\ probes' = probes + 1
          /\ okProbes' = IF o = "200" THEN okProbes + 1 ELSE okProbes
          /\ firstProbe' = Some(o)
          /\ IF o = "200"
             THEN wakeResult' = Some(TRUE) /\ pc' = "wake_returned"
             ELSE wakeResult' = wakeResult /\ pc' = "wake_request"
    /\ UNCHANGED <<i, wakes, sleeps, models, pulled, k, embeddings, matrix, raisedIn>>
    /\ UNCHANGED svars

(* wake_ollama_service, `requests.get(OLLAMA_URL, timeout=5)`: outside any *)
(* try block, its status is not looked at and its exception is not caught. *)
WakeRequest ==
    /\ pc = "wake_request"
    /\ \E o \in Outcomes :
          /\ wakes' = wakes + 1
          /\ IF o = "raise"
             THEN pc' = "raised" /\ raisedIn' = "wake_ollama_service"
             ELSE pc' = "wake_poll" /\ raisedIn' = raisedIn
    /\ i' = 0
    /\ UNCHANGED <<probes, okProbes, sleeps, firstProbe, wakeResult, models,
                   pulled, k, embeddings, matrix>>
    /\ UNCHANGED svars

(* wake_ollama_service, one pass of `for i in range(12)`: sleep, probe,   *)
(* return True on 200; falling out of the loop returns False.             *)
WakePoll ==
    /\ pc = "wake_poll"
    /\ i < PollBudget
    /\ sleeps' = sleeps + 1
    /\ \E o \in Outcomes :
          /\ probes' = probes + 1
          /\ okProbes' = IF o = "200" THEN okProbes + 1 ELSE okProbes
          /\ IF o = "200"
             THEN /\ wakeResult' = Some(TRUE)
                  /\ pc' = "wake_returned"
                  /\ i' = i
             ELSE /\ i' = i + 1
                  /\ IF i + 1 = PollBudget
                     THEN wakeResult' = Some(FALSE) /\ pc' = "wake_returned"
                     ELSE wakeResult' = wakeResult /\ pc' = pc
    /\ UNCHANGED <<wakes, firstProbe, models, pulled, k, embeddings, matrix, raisedIn>>
    /\ UNCHANGED svars

(* main, step 1: `if not wake_ollama_service(): return`. *)
MainAfterWake ==
    /\ pc = "wake_returned"
    /\ pc' = IF wakeResult = Some(TRUE) THEN "list_models" ELSE "done"
    /\ UNCHANGED <<i, probes, okProbes, wakes, sleeps, firstProbe, wakeResult,
                   models, pulled, k, embeddings, matrix, raisedIn>>
    /\ UNCHANGED svars

(* list_models, called by main step 2; step 3 then chooses whether to pull. *)
ListModels ==
    /\ pc = "list_models"
    /\ \E o \in Outcomes, names \in ModelLists :
          models' = IF o = "200" THEN Some(names) ELSE Some({})
    /\ pc' = IF MODEL_NAME \notin models'[1] THEN "pull_model" ELSE "embed"
    /\ UNCHANGED <<i, probes, okProbes, wakes, sleeps, firstProbe, wakeResult,
                   pulled, k, embeddings, matrix, raisedIn>>
    /\ UNCHANGED svars

(* pull_model: everything is inside `try ... except Exception`; the status *)
(* of the response is not looked at.                                       *)
PullModel ==
    /\ pc = "pull_model"
    /\ \E o \in Outcomes : pulled' = Some(o # "raise")
    /\ pc' = "embed"
    /\ UNCHANGED <<i, probes, okProbes, wakes, sleeps, firstProbe, wakeResult,
                   models, k, embeddings, matrix, raisedIn>>
    /\ UNCHANGED svars

(* generate_embedding of the script: the JSON of a 200 answer, else a dict *)
(* with an "error" key.  A 200 answer may itself lack the embedding.       *)
EmbeddingResult(o, hasEmbedding) ==
    IF o = "200" THEN (IF hasEmbedding THEN {"embedding"} ELSE {"error"})
    ELSE {"error"}

(* main, step 4: one pass of the loop over test_texts. *)
EmbedText ==
    /\ pc = "embed"
    /\ k < NumTestTexts
    /\ \E o \in Outcomes, hasEmbedding \in BOOLEAN :
          embeddings' = IF "embedding" \in EmbeddingResult(o, hasEmbedding)
                        THEN Append(embeddings, k + 1) ELSE embeddings
    /\ k' = k + 1
    /\ pc' = IF k + 1 = NumTestTexts THEN "similarity" ELSE pc
    /\ UNCHANGED <<i, probes, okProbes, wakes, sleeps, firstProbe, wakeResult,
                   models, pulled, matrix, raisedIn>>
    /\ UNCHANGED svars

(* main, step 5: the matrix is printed when at least two vectors exist.   *)
Similarity ==
    /\ pc = "similarity"
    /\ matrix' = (Len(embeddings) >= 2)
    /\ pc' = "done"
    /\ UNCHANGED <<i, probes, okProbes, wakes, sleeps, firstProbe, wakeResult,
                   models, pulled, k, embeddings, raisedIn>>
    /\ UNCHANGED svars

Init == ServerInit /\ ScriptInit

Next ==
    \/ LoadModel
    \/ HandleEmbed
    \/ HandleBatch
    \/ Respond

Spec == Init /\ [][Next]_vars

ScriptNext ==
    \/ WakeProbe
    \/ WakeRequest
    \/ WakePoll
    \/ MainAfterWake
    \/ ListModels
    \/ PullModel
    \/ EmbedText
    \/ Similarity

ScriptSpec == Init /\ [][ScriptNext]_vars

(* =========================== properties ================================ *)
(* Vocabulary of the properties, stated without the handler's helpers.    *)
Blank(text) == \A j \in 1..Len(text) : text[j] \in Whitespace
OutOfRange(d) == d < 32 \/ d > 1024
Handled(endpoint) == req.endpoint = endpoint /\ resp # None
Loaded == model # None
FullVector(request) == ModelOutput(FullText(request))

(* A served /embed request with the model loaded and non-empty text. *)
EmbedServed ==
    /\ Handled("/embed")
    /\ Loaded
    /\ ~Blank(req.body.text)

(* C1: POST /embed, model loaded, non-empty text: an integer dimensions   *)
(* value d with d < 32 or d > 1024 never ends in a success response.      *)
C1_OutOfRangeRejected ==
    (EmbedServed /\ req.body.dimensions # None /\ OutOfRange(req.body.dimensions[1]))
        => resp[1].status # 200

(* C2: POST /embed, model loaded, non-empty text, library working: the    *)
(* error for an out-of-range dimensions value is the client error 400,    *)
(* not the 500 of internal failures.                                      *)
C2_OutOfRangeIs400 ==
    (/\ EmbedServed
     /\ lib[1] = "ok"
     /\ req.body.dimensions # None /\ OutOfRange(req.body.dimensions[1])
     /\ resp[1].status # 200)
        => resp[1].status = 400

(* C3: POST /embed/batch, model loaded, N texts: always a success response *)
(* with N entries in input order; entry n is null exactly when processing  *)
(* text n failed and is otherwise that text's embedding; count = N and     *)
(* failed = number of null entries.                                        *)
C3_BatchShape ==
    (Handled("/embed/batch") /\ Loaded) =>
        LET r == resp[1]
            N == Len(req.texts)
            single(n) == GenerateEmbedding(
                             model,
                             EmbedRequest(req.texts[n], Some(<< >>),
                                          req.dimensions, req.instruction),
                             lib[n])
        IN  /\ r.status = 200
            /\ Len(r.body.embeddings) = N
            /\ r.body.count = N
            /\ r.body.failed =
                   Cardinality({n \in 1..N : r.body.embeddings[n] = None})
            /\ \A n \in 1..N :
                   /\ (r.body.embeddings[n] = None) <=> (single(n).status # 200)
                   /\ single(n).status = 200 =>
                          r.body.embeddings[n] = Some(single(n).body.embedding)

(* A two-text batch where the first text failed and the second did not. *)
C3_Witness ==
    /\ Handled("/embed/batch") /\ Loaded
    /\ Len(req.texts) = 2
    /\ resp[1].status = 200
    /\ resp[1].body.embeddings[1] = None
    /\ resp[1].body.embeddings[2] # None
    /\ resp[1].body.failed = 1

(* C6: POST /embed, model loaded, non-empty text, library working: with   *)
(* dimensions = d, 32 <= d < 1024, the response is a success whose         *)
(* embedding is the first d components of the full vector, in order and    *)
(* unchanged, and whose dimensions field is d; with dimensions absent or   *)
(* 1024 the full vector is returned.                                       *)
C6_TruncationIsPrefix ==
    (EmbedServed /\ lib[1] = "ok") =>
        LET d == req.body.dimensions
            r == resp[1]
            full == FullVector(req.body)
        IN  /\ (d # None /\ 32 <= d[1] /\ d[1] < 1024) =>
                   /\ r.status = 200
                   /\ Len(r.body.embedding) = d[1]
                   /\ \A j \in 1..d[1] : r.body.embedding[j] = full[j]
                   /\ r.body.dimensions = d[1]
            /\ (d = None \/ d = Some(1024)) =>
                   /\ r.status = 200
                   /\ r.body.embedding = full
                   /\ Len(r.body.embedding) = 1024

(* A success response truncated to 512 components. *)
C6_Witness ==
    /\ EmbedServed
    /\ req.body.dimensions = Some(512)
    /\ resp[1].status = 200
    /\ Len(resp[1].body.embedding) = 512

(* C7: POST /embed, model loaded: empty or whitespace-only text is         *)
(* rejected with 400 whatever the prefix, instruction and dimensions are,  *)
(* and neither the tokenizer nor the model is invoked.                     *)
C7_BlankTextRejected ==
    (Handled("/embed") /\ Loaded /\ Blank(req.body.text)) =>
        /\ resp[1].status = 400
        /\ resp[1].tokenizerCalls = 0
        /\ resp[1].modelCalls = 0

(* A whitespace-only text sent with a prefix and a bad dimension. *)
C7_Witness ==
    /\ Handled("/embed") /\ Loaded
    /\ req.body.text = <<" ">>
    /\ req.body.prefix = Some(<<"a">>)
    /\ req.body.dimensions = Some(1025)
    /\ resp[1].status = 400

(* C8: while the model handle is None every /embed and /embed/batch        *)
(* request ends in 503 whatever its input; a loaded handle is never reset, *)
(* and with the handle loaded no request ends in 503.                      *)
C8_Unavailable503 ==
    /\ [](((Handled("/embed") \/ Handled("/embed/batch")) /\ ~Loaded)
             => resp[1].status = 503)
    /\ [](((Handled("/embed") \/ Handled("/embed/batch")) /\ Loaded)
             => resp[1].status # 503)
    /\ [][Loaded => Loaded']_vars

(* A whitespace-only text answered 503 because the model is not loaded. *)
C8_Witness ==
    /\ Handled("/embed") /\ ~Loaded
    /\ Blank(req.body.text)
    /\ req.body.dimensions = Some(1025)
    /\ resp[1].status = 503

(* C9: in every success response of POST /embed, mrl_applied is true       *)
(* exactly when the returned embedding is shorter than 1024, and the       *)
(* dimensions field is the length of the embedding and lies in [32, 1024]. *)
C9_MrlFlagTellsTruncation ==
    (Handled("/embed") /\ resp[1].status = 200) =>
        LET b == resp[1].body
        IN  /\ b.mrl_applied <=> (Len(b.embedding) < 1024)
            /\ b.dimensions = Len(b.embedding)
            /\ 32 <= b.dimensions /\ b.dimensions <= 1024

(* C10: in every response of POST /embed/batch, whatever the dimensions    *)
(* parameter, each non-null entry has the length given by the top-level    *)
(* dimensions field, which is `dimensions or 1024`.                        *)
C10_BatchEntryLength ==
    (Handled("/embed/batch") /\ resp[1].status = 200) =>
        LET b == resp[1].body
            d == req.dimensions
        IN  /\ b.dimensions = IF d = None \/ d = Some(0) THEN 1024 ELSE d[1]
            /\ \A n \in 1..Len(b.embeddings) :
                   b.embeddings[n] # None => Len(b.embeddings[n][1]) = b.dimensions

(* A batch sent with dimensions = 0 that produced an embedding. *)
C10_Witness ==
    /\ Handled("/embed/batch")
    /\ req.dimensions = Some(0)
    /\ resp[1].status = 200
    /\ \E n \in 1..Len(resp[1].body.embeddings) : resp[1].body.embeddings[n] # None

(* --------------------------- script properties ------------------------- *)
WakeEnded == wakeResult # None \/ raisedIn = "wake_ollama_service"

(* C4: wake_ollama_service: a first probe answering 200 returns True at    *)
(* once (no wake request, no sleep, no further probe); otherwise exactly   *)
(* one wake request is sent and the polls follow, True being returned at   *)
(* the first poll answering 200 and False only after the first probe and   *)
(* all 12 polls have failed.                                               *)
C4_WakeProtocol ==
    /\ firstProbe = Some("200") =>
           /\ wakeResult = Some(TRUE)
           /\ wakes = 0 /\ sleeps = 0 /\ probes = 1
    /\ (WakeEnded /\ firstProbe # Some("200")) =>
           /\ wakes = 1
           /\ \/ /\ wakeResult = Some(TRUE)
                 /\ okProbes = 1
                 /\ probes = sleeps + 1
                 /\ probes <= 13
              \/ /\ wakeResult = Some(FALSE)
                 /\ okProbes = 0
                 /\ sleeps = 12
                 /\ probes = 13

(* C5: the script never raises to its caller: whatever its network calls   *)
(* do, no function of the script is left by an exception.                  *)
C5_NeverRaises == raisedIn = "none"
====
